---- MODULE Spec2Model ----
(***************************************************************************)
(* A model of specviz's model editor plugin and smoothing dialog:          *)
(*   src/specviz/widgets/smoothing.py                                      *)
(*   src/specviz/plugins/model_editor/model_editor.py                      *)
(*                                                                         *)
(* Text (the content of a line edit, an equation, a model name) is a       *)
(* sequence of one-character strings, so that Python's int(), float(),     *)
(* str() and re.sub() are computed character by character.                 *)
(***************************************************************************)
EXTENDS Integers, Sequences, FiniteSets, TLC

VARIABLES
    \* ---- SmoothingDialog / SmoothingThread (smoothing.py)
    smooth_button,      \* smooth_button.isEnabled()
    cancel_button,      \* cancel_button.isEnabled()
    dialogVisible,      \* the SmoothingDialog is shown
    size_input,         \* size_input.text()
    threads,            \* every SmoothingThread created so far, in order
    signals,            \* queued finished/exception signals, not yet delivered
    info_boxes,         \* "Smoothing Error" boxes shown so far
    slot_errors,        \* exceptions that escaped a slot of the dialog
    \* ---- ModelEditor.fitting_options / ModelAdvancedSettingsDialog
    fitting_options,    \* ModelEditor.fitting_options
    settings,           \* the open ModelAdvancedSettingsDialog, or Closed
    \* ---- ModelEditor and the ModelFittingModel it displays
    items,              \* model_editor_model.items: the rows of the tree
    equation,           \* model_editor_model.equation
    equation_text_edit, \* the equation editor: its plain text and its html
    model_list_combo,   \* the items of the variable drop-down list
    last                \* what the latest _on_fit_clicked call did

smoothVars == <<smooth_button, cancel_button, dialogVisible, size_input,
                threads, signals, info_boxes, slot_errors>>
settingsVars == <<fitting_options, settings>>
editorVars == <<items, equation, equation_text_edit, model_list_combo, last>>
vars == <<smoothVars, settingsVars, editorVars>>

(***************************************************************************)
(* Bounds of the model                                                     *)
(***************************************************************************)
MaxThreads == 2
MaxModels == 2
MaxTextLen == 9
MaxParseRuns == 3

(***************************************************************************)
(* Text helpers                                                            *)
(***************************************************************************)
Digits == {"0", "1", "2", "3", "4", "5", "6", "7", "8", "9"}

DigitVal(c) ==
    CASE c = "0" -> 0 [] c = "1" -> 1 [] c = "2" -> 2 [] c = "3" -> 3
      [] c = "4" -> 4 [] c = "5" -> 5 [] c = "6" -> 6 [] c = "7" -> 7
      [] c = "8" -> 8 [] c = "9" -> 9

DigitChar(d) ==
    CASE d = 0 -> "0" [] d = 1 -> "1" [] d = 2 -> "2" [] d = 3 -> "3"
      [] d = 4 -> "4" [] d = 5 -> "5" [] d = 6 -> "6" [] d = 7 -> "7"
      [] d = 8 -> "8" [] d = 9 -> "9"

\* str.isspace() on the characters a line edit can hold
IsSpace(c) == c \in {" ", "\t"}

RECURSIVE LStrip(_)
LStrip(s) == IF s # <<>> /\ IsSpace(Head(s)) THEN LStrip(Tail(s)) ELSE s

RECURSIVE RStrip(_)
RStrip(s) ==
    IF s # <<>> /\ IsSpace(s[Len(s)])
    THEN RStrip(SubSeq(s, 1, Len(s) - 1))
    ELSE s

Strip(s) == RStrip(LStrip(s))

HasSign(s) == s # <<>> /\ Head(s) \in {"+", "-"}
IsNegative(s) == s # <<>> /\ Head(s) = "-"
Unsigned(s) == IF HasSign(s) THEN Tail(s) ELSE s

\* Python's digitpart: digit (["_"] digit)*
IsDigitPart(s) ==
    /\ Len(s) > 0
    /\ \A i \in 1..Len(s) :
          \/ s[i] \in Digits
          \/ /\ s[i] = "_"
             /\ i > 1 /\ i < Len(s)
             /\ s[i - 1] \in Digits /\ s[i + 1] \in Digits

DropUnderscores(s) == SelectSeq(s, LAMBDA c : c # "_")

RECURSIVE DecVal(_)
DecVal(s) ==
    IF s = <<>> THEN 0
    ELSE 10 * DecVal(SubSeq(s, 1, Len(s) - 1)) + DigitVal(s[Len(s)])

RECURSIVE NatStr(_)
NatStr(n) ==
    IF n < 10 THEN <<DigitChar(n)>>
    ELSE Append(NatStr(n \div 10), DigitChar(n % 10))

\* the first index of s holding a character of cs, 0 when there is none
FirstIndex(s, cs) ==
    IF \E i \in 1..Len(s) : s[i] \in cs
    THEN CHOOSE i \in 1..Len(s) :
            s[i] \in cs /\ \A j \in 1..(i - 1) : s[j] \notin cs
    ELSE 0

RECURSIVE DropLeadingZeros(_)
DropLeadingZeros(s) ==
    IF s # <<>> /\ Head(s) = "0" THEN DropLeadingZeros(Tail(s)) ELSE s

RECURSIVE DropTrailingZeros(_)
DropTrailingZeros(s) ==
    IF s # <<>> /\ s[Len(s)] = "0"
    THEN DropTrailingZeros(SubSeq(s, 1, Len(s) - 1))
    ELSE s

Zeros(n) == [i \in 1..n |-> "0"]

(***************************************************************************)
(* int(text) and str(int)                                                  *)
(***************************************************************************)
\* int(text): optional whitespace, optional sign, a digitpart, optional
\* whitespace; anything else raises ValueError (ok = FALSE).
PyInt(text) ==
    LET t == Strip(text)
        u == Unsigned(t)
    IN  IF IsDigitPart(u)
        THEN [ok |-> TRUE,
              value |-> IF IsNegative(t) THEN 0 - DecVal(DropUnderscores(u))
                        ELSE DecVal(DropUnderscores(u))]
        ELSE [ok |-> FALSE, value |-> 0]

\* str(n) for an int
PyStrInt(n) == IF n < 0 THEN <<"-">> \o NatStr(0 - n) ELSE NatStr(n)

(***************************************************************************)
(* float(text) and str(float)                                              *)
(*                                                                         *)
(* A float is [kind, neg, digits, exp]: for kind "num" its value is        *)
(* 0.d1d2...dn * 10^exp with d1 # 0 and dn # 0 (digits = <<>> for zero),   *)
(* which is the shortest decimal that Python's repr prints for it.         *)
(***************************************************************************)
FloatZero(neg) == [kind |-> "num", neg |-> neg, digits |-> <<>>, exp |-> 0]

\* the float with significand 0.ds and decimal exponent e, normalised
MakeFloat(neg, ds, e) ==
    LET lead == DropLeadingZeros(ds)
        sig == DropTrailingZeros(lead)
    IN  IF sig = <<>> THEN FloatZero(neg)
        ELSE [kind |-> "num", neg |-> neg, digits |-> sig,
              exp |-> e - (Len(ds) - Len(lead))]

\* float(text): optional whitespace and sign, then inf, nan or
\* digitpart [. [digitpart]] | . digitpart, then an optional exponent.
PyFloat(text) ==
    LET t == Strip(text)
        u == Unsigned(t)
        neg == IsNegative(t)
        ePos == FirstIndex(u, {"e", "E"})
        mant == IF ePos = 0 THEN u ELSE SubSeq(u, 1, ePos - 1)
        expo == IF ePos = 0 THEN <<>> ELSE SubSeq(u, ePos + 1, Len(u))
        dot == FirstIndex(mant, {"."})
        ip == IF dot = 0 THEN mant ELSE SubSeq(mant, 1, dot - 1)
        fp == IF dot = 0 THEN <<>> ELSE SubSeq(mant, dot + 1, Len(mant))
        mantOk == IF dot = 0 THEN IsDigitPart(ip)
                  ELSE /\ ip = <<>> \/ IsDigitPart(ip)
                       /\ fp = <<>> \/ IsDigitPart(fp)
                       /\ ip # <<>> \/ fp # <<>>
        expOk == ePos = 0 \/ IsDigitPart(Unsigned(expo))
        expVal == IF ePos = 0 THEN 0
                  ELSE IF IsNegative(expo)
                       THEN 0 - DecVal(DropUnderscores(Unsigned(expo)))
                       ELSE DecVal(DropUnderscores(Unsigned(expo)))
        ids == DropUnderscores(ip)
        fds == DropUnderscores(fp)
        bad == [ok |-> FALSE, value |-> FloatZero(FALSE)]
    IN  IF u \in {<<"i", "n", "f">>, <<"n", "a", "n">>}
        THEN [ok |-> TRUE,
              value |-> [kind |-> IF Head(u) = "i" THEN "inf" ELSE "nan",
                         neg |-> neg /\ Head(u) = "i",
                         digits |-> <<>>, exp |-> 0]]
        ELSE IF mantOk /\ expOk
             THEN [ok |-> TRUE,
                   value |-> MakeFloat(neg, ids \o fds, Len(ids) + expVal)]
             ELSE bad

\* the exponent of repr's scientific notation: a sign and at least two digits
ExpStr(e) ==
    LET a == IF e < 0 THEN 0 - e ELSE e
    IN  <<"e", IF e < 0 THEN "-" ELSE "+">>
           \o (IF a < 10 THEN <<"0">> ELSE <<>>) \o NatStr(a)

\* str(x) for a float: repr's shortest digits, in scientific notation when
\* the decimal exponent is below -4 or at least 16.
PyStrFloat(x) ==
    LET sign == IF x.neg THEN <<"-">> ELSE <<>>
        n == Len(x.digits)
        sci == x.exp - 1
    IN  IF x.kind = "nan" THEN <<"n", "a", "n">>
        ELSE IF x.kind = "inf" THEN sign \o <<"i", "n", "f">>
        ELSE IF n = 0 THEN sign \o <<"0", ".", "0">>
        ELSE IF sci < -4 \/ sci >= 16
             THEN sign \o <<x.digits[1]>>
                    \o (IF n > 1 THEN <<".">> \o SubSeq(x.digits, 2, n)
                        ELSE <<>>)
                    \o ExpStr(sci)
        ELSE IF x.exp <= 0
             THEN sign \o <<"0", ".">> \o Zeros(0 - x.exp) \o x.digits
        ELSE IF x.exp >= n
             THEN sign \o x.digits \o Zeros(x.exp - n) \o <<".", "0">>
        ELSE sign \o SubSeq(x.digits, 1, x.exp) \o <<".">>
               \o SubSeq(x.digits, x.exp + 1, n)

(***************************************************************************)
(* smoothing.py: SmoothingDialog and SmoothingThread                       *)
(***************************************************************************)
\* what the user can have typed into size_input
T_3 == <<"3">>
T_3_0 == <<"3", ".", "0">>
T_abc == <<"a", "b", "c">>
SizeTexts == {<<>>, T_3, T_3_0, T_abc}

\* what a call of a KERNEL_REGISTRY function does: it returns the smoothed
\* data or raises an exception (a subclass of Exception)
FunctionOutcomes == {"return", "ValueError", "TypeError"}

\* `except Exception` catches e
IsException(e) == e \in {"ValueError", "TypeError"}

\* SmoothingThread.__init__ followed by start()
NewThread == [state |-> "Running", outcome |-> "none",
              finished |-> 0, exception |-> 0, escaped |-> FALSE]

\* the signals run() emits, in order, when self._function ends with outcome o
RunEmitsBoth(o) ==
    IF o = "return" THEN <<"finished">> ELSE <<"exception", "finished">>

RunEmits(o) ==
    IF o = "return" THEN <<"finished">>
    ELSE IF IsException(o) THEN <<"exception">>
    ELSE <<>>

\* an exception leaves run(): it was raised and `except Exception` missed it
RunEscapes(o) == o # "return" /\ ~IsException(o)

Count(seq, x) == Cardinality({k \in 1..Len(seq) : seq[k] = x})

\* the user edits the size field
SetSizeText(t) ==
    /\ dialogVisible
    /\ t # size_input
    /\ size_input' = t
    /\ UNCHANGED <<smooth_button, cancel_button, dialogVisible, threads,
                   signals, info_boxes, slot_errors, settingsVars, editorVars>>

\* accept without its two calls of setEnabled(False)
accept_without_disabling ==
    /\ dialogVisible /\ smooth_button
    /\ PyFloat(size_input).ok => Len(threads) < MaxThreads
    /\ IF PyFloat(size_input).ok
       THEN /\ threads' = Append(threads, NewThread)
            /\ UNCHANGED slot_errors
       ELSE /\ slot_errors' = slot_errors + 1
            /\ UNCHANGED threads
    /\ UNCHANGED <<smooth_button, cancel_button, dialogVisible, size_input,
                   signals, info_boxes, settingsVars, editorVars>>

\* smooth_button.clicked -> accept: only an enabled button of a shown dialog
\* can be clicked.  float() raises ValueError out of the slot after the
\* buttons were disabled and before a thread exists.
accept ==
    /\ dialogVisible /\ smooth_button
    /\ PyFloat(size_input).ok => Len(threads) < MaxThreads
    /\ smooth_button' = FALSE
    /\ cancel_button' = FALSE
    /\ IF PyFloat(size_input).ok
       THEN /\ threads' = Append(threads, NewThread)
            /\ UNCHANGED slot_errors
       ELSE /\ slot_errors' = slot_errors + 1
            /\ UNCHANGED threads
    /\ UNCHANGED <<dialogVisible, size_input, signals, info_boxes,
                   settingsVars, editorVars>>

\* SmoothingThread.run on thread i, whose function ends with outcome o
run(i, o) ==
    /\ threads[i].state = "Running"
    /\ LET em == RunEmits(o)
       IN  /\ threads' = [threads EXCEPT ![i] =
                  [state |-> IF o = "return" THEN "Finished" ELSE "Failed",
                   outcome |-> o,
                   finished |-> Count(em, "finished"),
                   exception |-> Count(em, "exception"),
                   escaped |-> RunEscapes(o)]]
           /\ signals' = signals \o
                  [k \in 1..Len(em) |->
                      [sig |-> em[k], thread |-> i,
                       payload |-> IF em[k] = "finished" THEN "new_data"
                                   ELSE o]]
    /\ UNCHANGED <<smooth_button, cancel_button, dialogVisible, size_input,
                   info_boxes, slot_errors, settingsVars, editorVars>>

\* the queued finished signal reaches the dialog
on_finished_enabling ==
    /\ signals # <<>> /\ Head(signals).sig = "finished"
    /\ signals' = Tail(signals)
    /\ dialogVisible' = FALSE
    /\ smooth_button' = TRUE
    /\ cancel_button' = TRUE
    /\ UNCHANGED <<size_input, threads, info_boxes, slot_errors,
                   settingsVars, editorVars>>

on_finished ==
    /\ signals # <<>> /\ Head(signals).sig = "finished"
    /\ signals' = Tail(signals)
    /\ dialogVisible' = FALSE
    /\ UNCHANGED <<smooth_button, cancel_button, size_input, threads,
                   info_boxes, slot_errors, settingsVars, editorVars>>

\* the queued exception signal reaches the dialog
on_exception ==
    /\ signals # <<>> /\ Head(signals).sig = "exception"
    /\ signals' = Tail(signals)
    /\ smooth_button' = TRUE
    /\ cancel_button' = TRUE
    /\ info_boxes' = info_boxes + 1
    /\ UNCHANGED <<dialogVisible, size_input, threads, slot_errors,
                   settingsVars, editorVars>>

\* cancel_button.clicked -> cancel
cancel ==
    /\ dialogVisible /\ cancel_button
    /\ dialogVisible' = FALSE
    /\ UNCHANGED <<smooth_button, cancel_button, size_input, threads,
                   signals, info_boxes, slot_errors, settingsVars, editorVars>>

\* the dialog is a QDialog: the window's close button or Escape hides it,
\* whatever the state of its buttons, and no thread is joined or cancelled
reject ==
    /\ dialogVisible
    /\ dialogVisible' = FALSE
    /\ UNCHANGED <<smooth_button, cancel_button, size_input, threads,
                   signals, info_boxes, slot_errors, settingsVars, editorVars>>

NextSmooth ==
    \/ \E t \in SizeTexts : SetSizeText(t)
    \/ accept
    \/ \E i \in 1..Len(threads) : \E o \in FunctionOutcomes : run(i, o)
    \/ on_finished
    \/ on_exception
    \/ cancel
    \/ reject

(***************************************************************************)
(* model_editor.py: fitting_options and ModelAdvancedSettingsDialog        *)
(***************************************************************************)
\* the keys of FITTERS, in the order of the dict
FITTERS == <<"Levenberg-Marquardt", "SLSQP Optimization", "Simplex">>

\* astropy.modeling.optimizers: DEFAULT_MAXITER, DEFAULT_ACC, DEFAULT_EPS
DEFAULT_MAXITER == 100
DEFAULT_ACC == PyFloat(<<"1", "e", "-", "0", "7">>).value
DEFAULT_EPS ==
    PyFloat(<<"1", ".", "4", "9", "0", "1", "1", "6", "1", "1", "9", "3",
              "8", "4", "7", "6", "5", "6", "e", "-", "0", "8">>).value

\* ModelEditor.__init__
DefaultFittingOptions ==
    [fitter |-> "Levenberg-Marquardt",
     max_iterations |-> DEFAULT_MAXITER,
     relative_error |-> DEFAULT_ACC,
     epsilon |-> DEFAULT_EPS]

\* what the user can type into the three line edits
T_50 == <<"5", "0">>
T_5_0 == <<"5", ".", "0">>
T_1em3 == <<"1", "e", "-", "3">>
T_1em6 == <<"1", "e", "-", "6">>
T_1e == <<"1", "e">>
T_sp7 == <<" ", "7">>
IterationTexts == {T_50, T_5_0, T_sp7}
FloatTexts == {T_1em3, T_1em6, T_1e}

LineEdits == {"max_iterations_line_edit", "relative_error_line_edit",
              "epsilon_line_edit"}
TypedTexts(w) ==
    IF w = "max_iterations_line_edit" THEN IterationTexts ELSE FloatTexts

red == "background-color: rgba(255, 0, 0, 128);"

\* no settings dialog exists
Closed == [open |-> FALSE]

\* QComboBox.findText(text, Qt.MatchFixedString): the 0-based index of the
\* first item equal to text, -1 when there is none
FindText(entries, text) ==
    IF \E i \in 1..Len(entries) : entries[i] = text
    THEN (CHOOSE i \in 1..Len(entries) :
             entries[i] = text /\ \A j \in 1..(i - 1) : entries[j] # text) - 1
    ELSE -1

\* fitting_type_combo_box.currentText()
CurrentText(d) == FITTERS[d.fitting_type_combo_box + 1]

\* ModelAdvancedSettingsDialog._init_ui: the dialog as it opens on options fo
InitUiIndexZero(fo) ==
    [open |-> TRUE,
     fitting_type_combo_box |-> 0,
     text |-> [w \in LineEdits |->
                 CASE w = "max_iterations_line_edit"
                        -> PyStrInt(fo.max_iterations)
                   [] w = "relative_error_line_edit"
                        -> PyStrFloat(fo.relative_error)
                   [] w = "epsilon_line_edit"
                        -> PyStrFloat(fo.epsilon)],
     style |-> [w \in LineEdits |-> ""]]

InitUi(fo) ==
    LET index == FindText(FITTERS, fo.fitter)
    IN  [open |-> TRUE,
         fitting_type_combo_box |-> IF index >= 0 THEN index ELSE 0,
         text |-> [w \in LineEdits |->
                     CASE w = "max_iterations_line_edit"
                            -> PyStrInt(fo.max_iterations)
                       [] w = "relative_error_line_edit"
                            -> PyStrFloat(fo.relative_error)
                       [] w = "epsilon_line_edit"
                            -> PyStrFloat(fo.epsilon)],
         style |-> [w \in LineEdits |-> ""]]

\* the conversion _validate_inputs tries on widget w does not raise
Converts(w, t) ==
    IF w = "max_iterations_line_edit" THEN PyInt(t).ok ELSE PyFloat(t).ok

\* ModelAdvancedSettingsDialog._validate_inputs on dialog d: the style sheets
\* it sets and the value it returns
ValidateIntOnly(d) ==
    [style |-> [w \in LineEdits |->
                  IF w = "max_iterations_line_edit" /\ ~Converts(w, d.text[w])
                  THEN red ELSE ""],
     success |-> Converts("max_iterations_line_edit",
                          d.text["max_iterations_line_edit"])]

_validate_inputs(d) ==
    [style |-> [w \in LineEdits |->
                  IF Converts(w, d.text[w]) THEN "" ELSE red],
     success |-> \A w \in LineEdits : Converts(w, d.text[w])]

\* the record apply_settings builds from the widgets of dialog d
SettingsRecord(d) ==
    [fitter |-> CurrentText(d),
     max_iterations |-> PyInt(d.text["max_iterations_line_edit"]).value,
     relative_error |-> PyFloat(d.text["relative_error_line_edit"]).value,
     epsilon |-> PyFloat(d.text["epsilon_line_edit"]).value]

\* advanced_settings_button.clicked: ModelAdvancedSettingsDialog(...).exec()
OpenSettings ==
    /\ ~settings.open
    /\ settings' = InitUi(fitting_options)
    /\ UNCHANGED <<fitting_options, smoothVars, editorVars>>

\* the user edits line edit w
EditText(w, t) ==
    /\ settings.open
    /\ settings.text[w] # t
    /\ settings' = [settings EXCEPT !.text[w] = t]
    /\ UNCHANGED <<fitting_options, smoothVars, editorVars>>

\* the user picks item i of the fitter combo box
SelectFitter(i) ==
    /\ settings.open
    /\ settings.fitting_type_combo_box # i
    /\ settings' = [settings EXCEPT !.fitting_type_combo_box = i]
    /\ UNCHANGED <<fitting_options, smoothVars, editorVars>>

\* buttonBox.accepted -> apply_settings
apply_settings ==
    /\ settings.open
    /\ LET v == _validate_inputs(settings)
       IN  IF ~v.success
           THEN /\ settings' = [settings EXCEPT !.style = v.style]
                /\ UNCHANGED fitting_options
           ELSE /\ fitting_options' = SettingsRecord(settings)
                /\ settings' = Closed
    /\ UNCHANGED <<smoothVars, editorVars>>

\* buttonBox.rejected -> cancel
cancel_settings ==
    /\ settings.open
    /\ settings' = Closed
    /\ UNCHANGED <<fitting_options, smoothVars, editorVars>>

NextSettings ==
    \/ OpenSettings
    \/ \E w \in LineEdits : \E t \in TypedTexts(w) : EditText(w, t)
    \/ \E i \in 0..(Len(FITTERS) - 1) : SelectFitter(i)
    \/ apply_settings
    \/ cancel_settings

(***************************************************************************)
(* model_editor.py: the tree of models, the equation editor, the fit       *)
(*                                                                         *)
(* One ModelDataItem exists, is hub.data_item and is shown in the tree     *)
(* view.  ModelFittingModel (add_model, reset_equation, evaluate,          *)
(* fittable_models) is not part of the sources read here.                  *)
(***************************************************************************)
LowerCase == {"a", "b", "c", "d", "e", "f", "g", "h", "i", "j", "k", "l", "m",
              "n", "o", "p", "q", "r", "s", "t", "u", "v", "w", "x", "y", "z"}
UpperCase == {"A", "B", "C", "D", "E", "F", "G", "H", "I", "J", "K", "L", "M",
              "N", "O", "P", "Q", "R", "S", "T", "U", "V", "W", "X", "Y", "Z"}

\* the regular expression class \w
IsWord(c) == c \in LowerCase \cup UpperCase \cup Digits \cup {"_"}

\* the keys of MODELS, in the order of the dict
MODELS == <<<<"C", "o", "n", "s", "t", "1", "D">>,
            <<"L", "i", "n", "e", "a", "r", "1", "D">>,
            <<"G", "a", "u", "s", "s", "i", "a", "n", "1", "D">>>>

\* the parameter names of an astropy model class
ParamNames(model) ==
    CASE model = <<"C", "o", "n", "s", "t", "1", "D">>
           -> <<<<"a", "m", "p", "l", "i", "t", "u", "d", "e">>>>
      [] model = <<"L", "i", "n", "e", "a", "r", "1", "D">>
           -> <<<<"s", "l", "o", "p", "e">>,
                <<"i", "n", "t", "e", "r", "c", "e", "p", "t">>>>
      [] model = <<"G", "a", "u", "s", "s", "i", "a", "n", "1", "D">>
           -> <<<<"a", "m", "p", "l", "i", "t", "u", "d", "e">>,
                <<"m", "e", "a", "n">>,
                <<"s", "t", "d", "d", "e", "v">>>>

\* names a user gives a model when renaming it in column 0 of the tree
N_blue == <<"b", "l", "u", "e">>
RenameTexts == {N_blue}

\* characters a user types into the equation editor
EquationChars == {"+"}

\* a value never touched by a fit
Default(param_name) == [src |-> "default", attr |-> param_name]

\* the row of the tree add_model makes for a model of class `model`
NewItem(model, name) ==
    [text |-> name, model |-> model,
     rows |-> [r \in 1..Len(ParamNames(model)) |->
                 [name |-> ParamNames(model)[r],
                  value |-> Default(ParamNames(model)[r]),
                  fixed |-> Default(ParamNames(model)[r])]]]

ItemTexts(its) == {its[i].text : i \in 1..Len(its)}

\* add_model's auto-generated unique name: the class name, followed by the
\* first number from 1 on that makes it differ from every row's name
UniqueName(model, its) ==
    IF model \notin ItemTexts(its) THEN model
    ELSE model \o NatStr(CHOOSE n \in 1..(Len(its) + 1) :
                            /\ model \o NatStr(n) \notin ItemTexts(its)
                            /\ \A m \in 1..(n - 1) :
                                  model \o NatStr(m) \in ItemTexts(its))

\* fittable_models.keys(): the names of the rows in order, each once (the
\* keys of a dict built row by row)
FittableNames(its) ==
    LET first == {i \in 1..Len(its) :
                     \A j \in 1..(i - 1) : its[j].text # its[i].text}
        Pick[k \in 0..Len(its)] ==
            IF k = 0 THEN <<>>
            ELSE IF k \in first THEN Append(Pick[k - 1], its[k].text)
            ELSE Pick[k - 1]
    IN  Pick[Len(its)]

RECURSIVE Join(_)
\* names joined by " + "
Join(names) ==
    IF names = <<>> THEN <<>>
    ELSE IF Len(names) = 1 THEN names[1]
    ELSE names[1] \o <<" ", "+", " ">> \o Join(Tail(names))

\* reset_equation: the sum of the rows, in the order of the tree
ResetEquation(its) == Join([i \in 1..Len(its) |-> its[i].text])

(***************************************************************************)
(* _parse_variables: re.sub(r"\b{var}\b", "<span ...>{var}</span>", ...)   *)
(***************************************************************************)
SpanOpen == <<"<", "s", "p", "a", "n", " ", "s", "t", "y", "l", "e", "=", "'", "c", "o", "l", "o", "r", ":", "b", "l", "u", "e", ";", " ", "f", "o", "n", "t", "-", "w", "e", "i", "g", "h", "t", ":", "b", "o", "l", "d", "'", ">">>
SpanClose == <<"<", "/", "s", "p", "a", "n", ">">>
Span(var) == SpanOpen \o var \o SpanClose

\* \b between s[p] and s[p + 1] (p = 0: the start, p = Len(s): the end)
Boundary(s, p) ==
    (p >= 1 /\ IsWord(s[p])) # (p < Len(s) /\ IsWord(s[p + 1]))

\* the pattern \bvar\b matches s from index i on
MatchAt(s, var, i) ==
    /\ i + Len(var) - 1 <= Len(s)
    /\ SubSeq(s, i, i + Len(var) - 1) = var
    /\ Boundary(s, i - 1)
    /\ Boundary(s, i + Len(var) - 1)

\* comp_reg.findall(s) is not empty
Found(s, var) == \E i \in 1..Len(s) : MatchAt(s, var, i)

RECURSIVE SubFrom(_, _, _, _)
SubFrom(s, var, repl, i) ==
    IF i > Len(s) THEN <<>>
    ELSE IF MatchAt(s, var, i)
         THEN repl \o SubFrom(s, var, repl, i + Len(var))
         ELSE <<s[i]>> \o SubFrom(s, var, repl, i + 1)

\* re.sub(r"\bvar\b", repl, s): every non-overlapping match, leftmost first
ReSub(var, repl, s) == SubFrom(s, var, repl, 1)

RECURSIVE Highlight(_, _)
\* the loop of _parse_variables over fittable_models.keys(): each name is
\* searched and replaced in the string the names before it have rewritten
Highlight(full_string, names) ==
    IF names = <<>> THEN full_string
    ELSE LET var == Head(names)
         IN  Highlight(IF Found(full_string, var)
                       THEN ReSub(var, Span(var), full_string)
                       ELSE full_string,
                       Tail(names))

(***************************************************************************)
(* The handlers of the tree and of the equation editor                     *)
(***************************************************************************)
\* a menu action of add_model_button -> _add_fittable_model(m)
_add_fittable_model(m) ==
    /\ Len(items) < MaxModels
    /\ items' = Append(items, NewItem(m, UniqueName(m, items)))
    /\ model_list_combo' = FittableNames(items')
    /\ UNCHANGED <<equation, equation_text_edit, last, smoothVars,
                   settingsVars>>

\* remove_model_button.clicked -> _on_remove_model, with row `row` selected
\* (row = 0: nothing is selected); removing a row resets the equation
_on_remove_model(row) ==
    /\ IF row > 0
       THEN /\ items' = [i \in 1..(Len(items) - 1) |->
                           IF i < row THEN items[i] ELSE items[i + 1]]
            /\ equation' = ResetEquation(items')
       ELSE UNCHANGED <<items, equation>>
    /\ model_list_combo' = FittableNames(items')
    /\ UNCHANGED <<equation_text_edit, last, smoothVars, settingsVars>>

\* the user renames row `row` to `name` in column 0: dataChanged ->
\* _on_model_data_changed with top_left.column() == 0
RenameModel(row, name) ==
    /\ items[row].text # name
    /\ items' = [items EXCEPT ![row].text = name]
    /\ equation' = ResetEquation(items')
    /\ UNCHANGED <<equation_text_edit, model_list_combo, last, smoothVars,
                   settingsVars>>

\* QTextEdit.setHtml that emits textChanged whether or not the signals of
\* the widget are blocked
SetHtmlUnblocked(w, html) ==
    [w EXCEPT !.html = html, !.textChanged = @ + 1]

\* QObject.blockSignals(b)
BlockSignals(w, b) == [w EXCEPT !.signalsBlocked = b]

\* QTextEdit.setHtml(html): the document is replaced, its plain text is the
\* same, and textChanged is emitted unless the signals are blocked
SetHtml(w, html) ==
    [w EXCEPT !.html = html,
              !.textChanged = IF w.signalsBlocked THEN @ ELSE @ + 1]

\* the user types or inserts text: the plain text is now `text` and the
\* widget emits textChanged once
UserEdit(w, text) ==
    [w EXCEPT !.plain = text,
              !.textChanged = IF w.signalsBlocked THEN @ ELSE @ + 1,
              !.parse_runs = 0]

\* one run of the body of _parse_variables on the editor w
ParseVariables(w, names) ==
    LET full_string == Highlight(w.plain, names)
        blocked == BlockSignals(w, TRUE)
        shown == SetHtml(blocked, full_string)
        unblocked == BlockSignals(shown, FALSE)
    IN  [unblocked EXCEPT !.parse_runs = @ + 1]

RECURSIVE TextChanged(_, _, _)
\* the connection textChanged -> _parse_variables: every emission runs the
\* slot, the emissions of the slot itself included, at most `fuel` times
TextChanged(w, names, fuel) ==
    IF w.textChanged = 0 \/ fuel = 0 THEN w
    ELSE TextChanged(ParseVariables([w EXCEPT !.textChanged = @ - 1], names),
                     names, fuel - 1)

\* the user changes the text of the equation editor to `text`:
\* textChanged -> _parse_variables
_parse_variables(text) ==
    /\ text # equation_text_edit.plain
    /\ equation' = text
    /\ equation_text_edit' =
          TextChanged(UserEdit(equation_text_edit, text),
                      FittableNames(items), MaxParseRuns)
    /\ UNCHANGED <<items, model_list_combo, last, smoothVars, settingsVars>>

\* texts one edit away: a character typed at the end, or insert_eq_button
\* inserting an item of the drop-down list at the end
OneEditTexts ==
    {equation_text_edit.plain \o <<c>> : c \in EquationChars}
      \cup {equation_text_edit.plain \o model_list_combo[i] :
               i \in 1..Len(model_list_combo)}

NextEditor ==
    \/ \E k \in 1..Len(MODELS) : _add_fittable_model(MODELS[k])
    \/ \E row \in 0..Len(items) : _on_remove_model(row)
    \/ \E row \in 1..Len(items) : \E name \in RenameTexts :
          RenameModel(row, name)
    \/ \E text \in OneEditTexts :
          Len(text) <= MaxTextLen /\ _parse_variables(text)

(***************************************************************************)
(* _on_fit_clicked                                                         *)
(***************************************************************************)
\* what data_selection_combo.itemData(currentIndex) and hub.plot_item's
\* data_item can be: nothing, a spectrum, the model
HubItems == {"None", "DataItem", "ModelDataItem"}

\* the user-drawn regions of the plot, each region.getRegion()
RegionLists ==
    {<<>>,
     <<[lo |-> 1, hi |-> 1]>>,
     <<[lo |-> 1, hi |-> 2]>>,
     <<[lo |-> 1, hi |-> 1], [lo |-> 2, hi |-> 2]>>}

\* what extract_region does when it is called, and what fit_lines returns
ExtractOutcomes == {"returned", "ValueError"}
FitOutcomes == {"None", "model"}

\* _combine_all_workspace_regions: None without regions, else the
\* SpectralRegion of all of them
_combine_all_workspace_regions(regions) ==
    IF Len(regions) = 0 THEN [none |-> TRUE, positions |-> <<>>]
    ELSE [none |-> FALSE, positions |-> regions]

\* SpectralRegion.bounds: the lowest lower and the highest upper bound
Bounds(spectral_region) ==
    LET ps == spectral_region.positions
    IN  <<CHOOSE x \in {ps[k].lo : k \in 1..Len(ps)} :
              \A k \in 1..Len(ps) : x <= ps[k].lo,
          CHOOSE x \in {ps[k].hi : k \in 1..Len(ps)} :
              \A k \in 1..Len(ps) : x >= ps[k].hi>>

\* extract_region is called for this region
Extracts(spectral_region) ==
    /\ ~spectral_region.none
    /\ Bounds(spectral_region)[1] # Bounds(spectral_region)[2]

\* the try block around the region extraction returns from the handler
RegionNeverAborts(spectral_region, extract) == FALSE

RegionAborts(spectral_region, extract) ==
    Extracts(spectral_region) /\ extract = "ValueError"

RECURSIVE Words(_)
\* the names an equation refers to: its maximal runs of word characters
Words(s) ==
    IF s = <<>> THEN <<>>
    ELSE IF ~IsWord(Head(s)) THEN Words(Tail(s))
    ELSE LET stop == IF \E i \in 1..Len(s) : ~IsWord(s[i])
                     THEN CHOOSE i \in 1..Len(s) :
                             ~IsWord(s[i]) /\ \A j \in 1..(i - 1) : IsWord(s[j])
                     ELSE Len(s) + 1
         IN  <<SubSeq(s, 1, stop - 1)>> \o Words(SubSeq(s, stop, Len(s)))

\* disp_mods.get(name): the last row of that name, 0 for None
DispIndex(its, name) ==
    IF \E m \in 1..Len(its) : its[m].text = name
    THEN CHOOSE m \in 1..Len(its) :
            its[m].text = name /\ \A k \in (m + 1)..Len(its) : its[k].text # name
    ELSE 0

\* evaluate(): None when the equation is empty or refers to a name that is
\* no row of the tree, else the compound model of the named submodels in
\* the order of the equation
Evaluate(its, eq) ==
    LET w == Words(eq)
    IN  IF w = <<>> \/ \E k \in 1..Len(w) : w[k] \notin ItemTexts(its)
        THEN [none |-> TRUE, submodels |-> <<>>]
        ELSE [none |-> FALSE,
              submodels |-> [k \in 1..Len(w) |->
                               [name |-> w[k],
                                model |-> its[DispIndex(its, w[k])].model]]]

\* the dialogs shown when evaluate() returned None
EmptyModelSilent == <<>>

EmptyModelMessages == <<"Please add models to fit.">>

\* "{0}_{1}".format(param_name, i)
AttrName(param_name, i) == param_name \o <<"_">> \o NatStr(i)

\* the parameter attributes of the model fit_lines returns for `submodels`
FitAttrs(submodels) ==
    IF Len(submodels) > 1
    THEN UNION {{AttrName(ParamNames(submodels[i].model)[r], i - 1) :
                    r \in 1..Len(ParamNames(submodels[i].model))} :
                i \in 1..Len(submodels)}
    ELSE {ParamNames(submodels[1].model)[r] :
             r \in 1..Len(ParamNames(submodels[1].model))}

\* getattr(fit_mod, attr): the value and the fixed flag the fit gave attr
FittedParameter(attr) ==
    [value |-> [src |-> "fit", attr |-> attr],
     fixed |-> [src |-> "fit", attr |-> attr]]

\* one round of `for i, sub_mod in enumerate(sub_mods)`, i counted from 1:
\* the row of the tree is found by sub_mod.name, the attribute by i
WriteRowsOf(its, m, submodels, i) ==
    LET rows == its[m].rows
        Attr(c) == IF Len(submodels) > 1 THEN AttrName(rows[c].name, i - 1)
                   ELSE rows[c].name
        bad == {c \in 1..Len(rows) : Attr(c) \notin FitAttrs(submodels)}
        stop == IF bad = {} THEN Len(rows) + 1
                ELSE CHOOSE c \in bad : \A d \in bad : c <= d
    IN  [items |-> [its EXCEPT ![m].rows =
                       [c \in 1..Len(rows) |->
                          IF c < stop
                          THEN [name |-> rows[c].name,
                                value |-> FittedParameter(Attr(c)).value,
                                fixed |-> FittedParameter(Attr(c)).fixed]
                          ELSE rows[c]]],
         raised |-> bad # {},
         written |-> stop > 1]

WriteSubModelByTreeOrder(its, submodels, i) ==
    IF i > Len(its) THEN [items |-> its, raised |-> TRUE, written |-> FALSE]
    ELSE WriteRowsOf(its, i, submodels, i)

WriteSubModel(its, submodels, i) ==
    LET m == DispIndex(its, submodels[i].name)
    IN  IF m = 0 THEN [items |-> its, raised |-> TRUE, written |-> FALSE]
        ELSE WriteRowsOf(its, m, submodels, i)

RECURSIVE WriteBack(_, _, _, _)
\* the loop over sub_mods from i on; an AttributeError ends it
WriteBack(its, submodels, i, written) ==
    IF i > Len(submodels)
    THEN [items |-> its, raised |-> FALSE, written |-> written]
    ELSE LET r == WriteSubModel(its, submodels, i)
         IN  IF r.raised
             THEN [r EXCEPT !.written = written \/ r.written]
             ELSE WriteBack(r.items, submodels, i + 1, written \/ r.written)

\* the call of fit_lines
NotCalled == [called |-> FALSE]
FitLinesCall(spectral_region, options, returned) ==
    [called |-> TRUE,
     spectrum |-> "spectrum_data_item.spectrum",
     window |-> spectral_region,
     fitter |-> options.fitter,
     maxiter |-> options.max_iterations,
     acc |-> options.relative_error,
     epsilon |-> options.epsilon,
     returned |-> returned]

\* no call of _on_fit_clicked yet
NoClick ==
    [clicked |-> FALSE, sel |-> "None", plot |-> "None", dialogs |-> <<>>,
     raised |-> "", evaluated |-> FALSE, extract_region |-> "not called",
     fit_lines |-> NotCalled, set_data |-> FALSE]

\* a call of _on_fit_clicked, with sel selected in data_selection_combo and
\* plot the data item of hub.plot_item, that did nothing else yet
Returned(sel, plot) == [NoClick EXCEPT !.clicked = TRUE, !.sel = sel, !.plot = plot]

\* what the call of extract_region did, if there was one
ExtractResult(spectral_region, extract) ==
    IF Extracts(spectral_region) THEN extract ELSE "not called"

\* fit_button.clicked -> _on_fit_clicked, with what the hub holds (the
\* selected data item, the item of the active plot, the regions) and what
\* extract_region and fit_lines do when they are called
_on_fit_clicked(sel, plot, regions, extract, fit) ==
    LET result == Evaluate(items, equation)
        spectral_region == _combine_all_workspace_regions(regions)
        wb == WriteBack(items, result.submodels, 1, FALSE)
        here == Returned(sel, plot)
    IN  /\ IF sel = "ModelDataItem"
           THEN /\ last' = [here EXCEPT
                               !.dialogs = <<"Selected data is a model.">>]
                /\ UNCHANGED items
           ELSE IF plot = "None"
           THEN /\ last' = [here EXCEPT !.raised = "AttributeError"]
                /\ UNCHANGED items
           ELSE IF plot # "ModelDataItem"
           THEN /\ last' = here
                /\ UNCHANGED items
           ELSE IF result.none
           THEN /\ last' = [here EXCEPT !.evaluated = TRUE,
                                        !.dialogs = EmptyModelMessages]
                /\ UNCHANGED items
           ELSE IF sel = "None"
           THEN /\ last' = [here EXCEPT !.evaluated = TRUE,
                                        !.raised = "AttributeError"]
                /\ UNCHANGED items
           ELSE IF RegionAborts(spectral_region, extract)
           THEN /\ last' = [here EXCEPT
                               !.evaluated = TRUE,
                               !.extract_region =
                                   ExtractResult(spectral_region, extract)]
                /\ UNCHANGED items
           ELSE IF fit = "None"
           THEN /\ last' = [here EXCEPT
                               !.evaluated = TRUE,
                               !.extract_region =
                                   ExtractResult(spectral_region, extract),
                               !.fit_lines = FitLinesCall(spectral_region,
                                                 fitting_options, "None")]
                /\ UNCHANGED items
           ELSE /\ last' = [here EXCEPT
                               !.evaluated = TRUE,
                               !.extract_region =
                                   ExtractResult(spectral_region, extract),
                               !.fit_lines = FitLinesCall(spectral_region,
                                                 fitting_options, "model"),
                               !.raised = IF wb.raised THEN "AttributeError"
                                          ELSE "",
                               !.set_data = wb.written \/ ~wb.raised]
                /\ items' = wb.items
        /\ UNCHANGED <<equation, equation_text_edit, model_list_combo,
                       smoothVars, settingsVars>>

\* the sequences of distinct elements of 1..n
Arrangements(n) ==
    {s \in UNION {[1..k -> 1..n] : k \in 0..n} :
        \A a, b \in DOMAIN s : a # b => s[a] # s[b]}

\* equations a user may enter as a whole: a sum of rows of the tree in any
\* order, a row added to itself, a sum with a name that is no row
N_x == <<"x">>
WholeEquations ==
    LET names == FittableNames(items)
    IN  {Join([k \in DOMAIN s |-> names[s[k]]]) : s \in Arrangements(Len(names))}
          \cup {Join(<<names[k], names[k]>>) : k \in 1..Len(names)}
          \cup {Join(Append(names, N_x))}

NextFit ==
    \/ \E m \in {MODELS[1], MODELS[2]} : _add_fittable_model(m)
    \/ \E text \in WholeEquations : _parse_variables(text)
    \/ \E sel \in HubItems, plot \in HubItems, regions \in RegionLists,
          extract \in ExtractOutcomes, fit \in FitOutcomes :
          _on_fit_clicked(sel, plot, regions, extract, fit)

(***************************************************************************)
(* Specifications                                                          *)
(***************************************************************************)
\* the state after construction: SmoothingDialog.__init__ and _load_ui have
\* shown the smoothing dialog, ModelEditor.__init__ has set the default
\* fitting options, no settings dialog is open
Init ==
    /\ smooth_button = TRUE
    /\ cancel_button = TRUE
    /\ dialogVisible = TRUE
    /\ size_input = <<>>
    /\ threads = <<>>
    /\ signals = <<>>
    /\ info_boxes = 0
    /\ slot_errors = 0
    /\ fitting_options = DefaultFittingOptions
    /\ settings = Closed
    /\ items = <<>>
    /\ equation = <<>>
    /\ equation_text_edit = [plain |-> <<>>, html |-> <<>>,
                             signalsBlocked |-> FALSE, textChanged |-> 0,
                             parse_runs |-> 0]
    /\ model_list_combo = <<>>
    /\ last = NoClick

\* the smoothing dialog and its worker threads
SpecSmooth == Init /\ [][NextSmooth]_vars

\* the advanced settings dialog
SpecSettings == Init /\ [][NextSettings]_vars

\* the tree of models, the drop-down list and the equation editor
SpecEditor == Init /\ [][NextEditor]_vars

\* the tree of models, the equation and the fit
SpecFit == Init /\ [][NextFit]_vars

(***************************************************************************)
(* Claims about the smoothing dialog (SpecSmooth)                          *)
(***************************************************************************)
\* C1: every started SmoothingThread run ends in exactly one outcome: it
\* emits finished (carrying the new data) when the function returned and
\* exception (carrying the error) when it raised, never both, never neither,
\* nothing before it ends, and no exception leaves run().
C1_ExactlyOneOutcome ==
    /\ \A i \in 1..Len(threads) :
          LET t == threads[i]
          IN  /\ t.state = "Running" => t.finished = 0 /\ t.exception = 0
              /\ t.state = "Finished" =>
                    t.outcome = "return" /\ t.finished = 1 /\ t.exception = 0
              /\ t.state = "Failed" =>
                    t.outcome # "return" /\ t.finished = 0 /\ t.exception = 1
              /\ ~t.escaped
    /\ \A k \in 1..Len(signals) :
          LET m == signals[k]
          IN  IF m.sig = "finished"
              THEN m.payload = "new_data"
                   /\ threads[m.thread].state = "Finished"
              ELSE m.payload = threads[m.thread].outcome
                   /\ threads[m.thread].state = "Failed"

\* one run has failed and a later one has finished
C1_Witness ==
    \E i, j \in 1..Len(threads) :
        threads[i].state = "Failed" /\ threads[j].state = "Finished"

\* C2: both buttons are disabled while a worker started by accept is
\* Running; a button goes from disabled to enabled only in on_exception;
\* on_finished closes the dialog and leaves both buttons disabled.
C2_ButtonsWhileRunning ==
    /\ [](\A i \in 1..Len(threads) :
             threads[i].state = "Running" =>
                 ~smooth_button /\ ~cancel_button)
    /\ [][((~smooth_button /\ smooth_button')
             \/ (~cancel_button /\ cancel_button')) => on_exception]_vars
    /\ [][on_finished =>
             ~dialogVisible' /\ ~smooth_button' /\ ~cancel_button']_vars

\* a failure re-enabled the buttons, a second worker was started and its
\* finished signal closed the dialog with the buttons still disabled
C2_Witness ==
    /\ info_boxes = 1
    /\ \E i \in 1..Len(threads) : threads[i].state = "Finished"
    /\ signals = <<>>
    /\ ~dialogVisible /\ ~smooth_button /\ ~cancel_button

(***************************************************************************)
(* Claims about the advanced settings dialog (SpecSettings)                *)
(***************************************************************************)
\* every line edit of dialog d holds a text its conversion accepts
AllConvert(d) ==
    /\ PyInt(d.text["max_iterations_line_edit"]).ok
    /\ PyFloat(d.text["relative_error_line_edit"]).ok
    /\ PyFloat(d.text["epsilon_line_edit"]).ok

\* the four values dialog d shows
ShownValues(d) ==
    [fitter |-> FITTERS[d.fitting_type_combo_box + 1],
     max_iterations |-> PyInt(d.text["max_iterations_line_edit"]).value,
     relative_error |-> PyFloat(d.text["relative_error_line_edit"]).value,
     epsilon |-> PyFloat(d.text["epsilon_line_edit"]).value]

\* C7: accepting a dialog whose three texts are valid stores exactly the
\* four shown values as the whole of fitting_options and closes the dialog,
\* and a dialog that opens shows exactly the four stored values.
C7_SettingsRoundTrip ==
    /\ [][(apply_settings /\ AllConvert(settings)) =>
             fitting_options' = ShownValues(settings) /\ ~settings'.open]_vars
    /\ [][OpenSettings =>
             AllConvert(settings')
             /\ ShownValues(settings') = fitting_options]_vars

\* Simplex, 50, 1e-3 and 1e-6 were typed and saved, and the reopened dialog
\* shows them as str() prints them
C7_Witness ==
    /\ settings.open
    /\ fitting_options = [fitter |-> "Simplex", max_iterations |-> 50,
                          relative_error |-> PyFloat(T_1em3).value,
                          epsilon |-> PyFloat(T_1em6).value]
    /\ FITTERS[settings.fitting_type_combo_box + 1] = "Simplex"
    /\ settings.text["max_iterations_line_edit"] = <<"5", "0">>
    /\ settings.text["relative_error_line_edit"] = <<"0", ".", "0", "0", "1">>
    /\ settings.text["epsilon_line_edit"] = <<"1", "e", "-", "0", "6">>

\* C8: accepting a dialog with a malformed number leaves it open and
\* fitting_options unchanged, and afterwards a line edit is red exactly
\* when its own text does not convert.
C8_MalformedBlocks ==
    [][(apply_settings /\ ~AllConvert(settings)) =>
          /\ settings'.open
          /\ fitting_options' = fitting_options
          /\ settings'.text = settings.text
          /\ settings'.style["max_iterations_line_edit"] = red
                <=> ~PyInt(settings.text["max_iterations_line_edit"]).ok
          /\ settings'.style["relative_error_line_edit"] = red
                <=> ~PyFloat(settings.text["relative_error_line_edit"]).ok
          /\ settings'.style["epsilon_line_edit"] = red
                <=> ~PyFloat(settings.text["epsilon_line_edit"]).ok]_vars

\* a rejected accept flagged max iterations and epsilon and not the valid
\* relative error, after an earlier rejected accept had flagged it
C8_Witness ==
    /\ settings.open
    /\ fitting_options = DefaultFittingOptions
    /\ settings.text["max_iterations_line_edit"] = T_5_0
    /\ settings.text["relative_error_line_edit"] = T_1em3
    /\ settings.text["epsilon_line_edit"] = T_1e
    /\ settings.style["max_iterations_line_edit"] = red
    /\ settings.style["relative_error_line_edit"] = ""
    /\ settings.style["epsilon_line_edit"] = red

(***************************************************************************)
(* Claims about the tree, the drop-down list and the equation editor       *)
(* (SpecEditor)                                                            *)
(***************************************************************************)
RECURSIVE WrapFrom(_, _, _)
\* s from index i on, with every whole-word occurrence in s of a name of
\* `names` wrapped once and every other character kept
WrapFrom(s, names, i) ==
    IF i > Len(s) THEN <<>>
    ELSE IF \E k \in 1..Len(names) : MatchAt(s, names[k], i)
         THEN LET k == CHOOSE k \in 1..Len(names) : MatchAt(s, names[k], i)
              IN  Span(names[k]) \o WrapFrom(s, names, i + Len(names[k]))
         ELSE <<s[i]>> \o WrapFrom(s, names, i + 1)

\* C9: when the text of the editor changes, the html _parse_variables sets
\* is the typed text with exactly its whole-word occurrences of declared
\* names wrapped, each once; the markup inserted for one name is never
\* matched by a later name.
C9_HighlightExact ==
    [][equation_text_edit'.plain # equation_text_edit.plain =>
          equation_text_edit'.html =
              WrapFrom(equation_text_edit'.plain, FittableNames(items), 1)]_vars

\* C10: the drop-down list holds exactly the current names of the fittable
\* submodels, after any add, remove and rename.
C10_ComboListsNames == model_list_combo = FittableNames(items)

(***************************************************************************)
(* Claims about the fit (SpecFit)                                          *)
(***************************************************************************)
\* this step is a call of _on_fit_clicked
FitClickStep ==
    \E regions \in RegionLists, extract \in ExtractOutcomes,
       fit \in FitOutcomes :
        _on_fit_clicked(last'.sel, last'.plot, regions, extract, fit)

\* the tree, the equation and the fitting options are what they were
FitLeavesState ==
    /\ items' = items
    /\ equation' = equation
    /\ equation_text_edit' = equation_text_edit
    /\ model_list_combo' = model_list_combo
    /\ fitting_options' = fitting_options

\* C3: a click on fit with no data item selected shows exactly one warning
\* dialog, raises nothing, does not call the fit routine and does not
\* refresh the plot.
C3_NoSelectionWarns ==
    (last.clicked /\ last.sel = "None") =>
        /\ Len(last.dialogs) = 1
        /\ last.raised = ""
        /\ ~last.fit_lines.called
        /\ ~last.set_data

\* C5: when evaluate() returns None for the active model item, a click on
\* fit shows one warning dialog, does not call the fit routine, does not
\* refresh the plot and changes no row of the tree.
C5_EmptyModelWarns ==
    [][(last'.clicked /\ last'.plot = "ModelDataItem"
          /\ Evaluate(items, equation).none /\ FitClickStep) =>
          /\ Len(last'.dialogs) = 1
          /\ last'.raised = ""
          /\ ~last'.fit_lines.called
          /\ ~last'.set_data
          /\ FitLeavesState]_vars

\* two models were added, the equation names something that is no row, and
\* the click with a spectrum selected showed the warning
C5_Witness ==
    /\ last.clicked /\ last.sel = "DataItem" /\ last.plot = "ModelDataItem"
    /\ Len(items) = 2
    /\ Evaluate(items, equation).none
    /\ last.dialogs = <<"Please add models to fit.">>
    /\ ~last.fit_lines.called /\ ~last.set_data

\* C6: when extract_region raises ValueError the click ends silently: no
\* dialog, no exception out of the handler, no call of the fit routine, no
\* refresh of the plot, no change of the tree.
C6_RegionErrorSilent ==
    /\ [](last.extract_region = "ValueError" =>
             /\ last.dialogs = <<>>
             /\ last.raised = ""
             /\ ~last.fit_lines.called
             /\ ~last.set_data)
    /\ [][(last'.extract_region = "ValueError" /\ FitClickStep) =>
             FitLeavesState]_vars

\* extract_region raised on a click with a valid compound model of two
\* submodels
C6_Witness ==
    /\ last.clicked /\ last.extract_region = "ValueError"
    /\ last.sel = "DataItem" /\ last.plot = "ModelDataItem"
    /\ Len(Evaluate(items, equation).submodels) = 2
    /\ last.dialogs = <<>> /\ ~last.fit_lines.called

\* this step is a click on fit whose fit routine returned a model for a
\* compound model of two or more submodels
FittedCompoundStep ==
    /\ last'.clicked /\ last'.fit_lines.called
    /\ last'.fit_lines.returned = "model"
    /\ Len(Evaluate(items, equation).submodels) >= 2
    /\ FitClickStep

\* after the step every row of tree entry m holds the value and the fixed
\* flag the fit gave the submodel at position i (counted from 0)
HoldsOutput(m, i) ==
    /\ Len(items'[m].rows) = Len(items[m].rows)
    /\ \A c \in 1..Len(items[m].rows) :
          LET attr == AttrName(items[m].rows[c].name, i)
          IN  /\ items'[m].rows[c].name = items[m].rows[c].name
              /\ items'[m].rows[c].value = [src |-> "fit", attr |-> attr]
              /\ items'[m].rows[c].fixed = [src |-> "fit", attr |-> attr]

FitRestricted(call) ==
    call.spectrum # "spectrum_data_item.spectrum" \/ ~call.window.none

\* C11: the data given to the fit routine is restricted to the combined
\* region if and only if there is a region and its bounds differ; with no
\* region or a degenerate one the fit runs on the whole spectrum.
C11_RestrictedIffNonDegenerate ==
    last.fit_lines.called =>
        (FitRestricted(last.fit_lines) <=> Extracts(last.fit_lines.window))


(***************************************************************************)
(* Claims about the smoothing dialog's workers (SpecSmooth)                *)
(***************************************************************************)
\* C12: when accept runs while the size input does not parse as a number,
\* no worker is started and the smooth and cancel buttons remain enabled.
C12_BadSizeKeepsButtons ==
    [][(accept /\ ~PyFloat(size_input).ok) =>
          /\ threads' = threads
          /\ smooth_button' /\ cancel_button']_vars

\* the threads of the dialog that are Running
RunningThreads == {i \in 1..Len(threads) : threads[i].state = "Running"}

\* thread i has reported its failure: it Failed and its exception signal
\* has reached the dialog
ReportedFailed(i) ==
    /\ threads[i].state = "Failed"
    /\ \A k \in 1..Len(signals) : signals[k].thread # i

\* C13: at most one worker of the dialog is Running, and a worker is
\* started only when every earlier one has reported Failed.
C13_OneRunningWorker ==
    /\ [](Cardinality(RunningThreads) <= 1)
    /\ [][Len(threads') > Len(threads) =>
             \A i \in 1..Len(threads) : ReportedFailed(i)]_vars

\* a second worker runs after the first one failed
C13_Witness ==
    /\ Len(threads) = 2
    /\ threads[1].state = "Failed"
    /\ threads[2].state = "Running"


(***************************************************************************)
(* Claims about the re-entry of the parser (SpecEditor)                    *)
(***************************************************************************)
\* C14: one user edit of the equation text runs _parse_variables exactly
\* once: the setHtml of the parser emits no textChanged, so no emission is
\* left to deliver, and the signals of the editor are unblocked after every
\* parse.
C14_OneParsePerEdit ==
    /\ [](~equation_text_edit.signalsBlocked
            /\ equation_text_edit.textChanged = 0)
    /\ [][equation_text_edit'.plain # equation_text_edit.plain =>
             equation_text_edit'.parse_runs = 1]_vars

\* an edit whose parse rewrote the display with a highlighted name
C14_Witness ==
    /\ equation_text_edit.parse_runs = 1
    /\ equation_text_edit.html # equation_text_edit.plain
    /\ equation_text_edit.html =
          Highlight(equation_text_edit.plain, FittableNames(items))
    /\ ~equation_text_edit.signalsBlocked

====
